---------------------------- MODULE Spec2Model ----------------------------
(***************************************************************************)
(* Farcoin server: the reaction scan (getReactionsToUser, GET /scan), the  *)
(* window-filtered count of GET /sign, and the signer fan-out of           *)
(* POST /mint.                                                             *)
(*                                                                         *)
(* The repository holds three revisions of the service:                    *)
(*   src/unnamed/part_000        /sign + /scan, oldest                     *)
(*   src/index.js lines 1-305    /sign + /scan                             *)
(*   src/index.js lines 307-556  /mint + /scan                             *)
(* Where revisions differ, the model carries a revision variable and each  *)
(* action follows the code of the revision it runs.                        *)
(***************************************************************************)
EXTENDS Integers, Sequences, FiniteSets, TLC

(***************************************************************************)
(* Bounds of the model                                                     *)
(***************************************************************************)
MaxFid == 2          \* reactor / target ids are 1..MaxFid
MaxTime == 2         \* reactor timestamps fall in seconds 1..MaxTime
MaxStamp == 2        \* hub message timestamps are 1..MaxStamp
MaxNotifs == 2       \* notifications in one page of the reaction feed
MaxPageReactors == 3 \* reactors listed by the notifications of one page
MaxM == 3            \* maxResults ranges over 1..MaxM
MaxFetches == 6      \* cap on page fetches of a scan that never stops itself
MaxFeed == 3         \* like messages the liker's hub feed can hold
PageSize == 2        \* messages in one page of the hub feed
MaxCycles == 2       \* mints the chain accepts in one run
NumSigners == 3      \* configured signer URLs (SIGNER_URLS)
MaxEcho == 2         \* distinct argument tuples a signer may echo
MaxWidePages == 2    \* pages of a feed whose reactors differ in second and name
MaxPagesEach == 1    \* pages of the feed of each of two concurrent scans

Fids == 1..MaxFid
Times == 1..MaxTime
Names == {"a", "b"}

\* JS null / undefined for a number-valued slot.  The code reads both alike
\* (`x || 0`, `x || Infinity`, `!x`), and every real value stored there is > 0.
Null == 0

Max(a, b) == IF a > b THEN a ELSE b
Min(a, b) == IF a < b THEN a ELSE b

\* sendResponse(res, error) and sendResponse(res, null, results)
ErrorResponse(msg) == [error |-> msg, results |-> <<>>]
SuccessResponse(r) == [error |-> "", results |-> r]

(***************************************************************************)
(* State                                                                   *)
(***************************************************************************)
VARIABLES
    \* ---- GET /scan and getReactionsToUser
    scanRev,        \* "index" | "part_000": which revision's getReactionsToUser runs
    scanPc,         \* "idle" | "lookup" | "fetch" | "loop" | "reactors" | "unread"
                    \*   | "returned" | "threw" | "boundary" | "responded"
    maxResults,     \* the maxResults argument of the first call
    result,         \* the accumulator object created by /scan
    depth,          \* the depth argument of the running call
    shifted,        \* part_000 only: the running call was made with maxResults omitted
    cutoff,         \* the local `cutoff` of the running call
    notifIdx,       \* notifications of the current page already reached
    pageReactors,   \* reactors the current page has listed under 'like' so far
    cursorArg,      \* the nextCursor argument of the running call
    FIDs,           \* result.FIDs
    fidLastMintTime,\* result.fidLastMintTime
    scanResponses,  \* responses sent for this request
    parked,         \* the activation of another /scan request that is waiting
                    \*   at an await while this one runs
    \* history of the scan (not read by the program)
    fetches,        \* page fetches issued by this scan
    likeOcc,        \* fid -> occurrences in 'like' notifications of fetched pages
    otherOcc,       \* a notification of another type listed reactors
    nextCursor,     \* the last completed page carried next.cursor
    lastSeen,       \* fid -> latest second among its like events processed
    outstanding,    \* page fetches issued and not yet settled
    rejection,      \* why the request was turned away before the scan, and
                    \*   the address and verifications it was turned away on
    boundaryReads,  \* batched boundary reads issued
    userFIDRepeated,\* the target argument handed to the batched boundary read
    failedAt        \* "none" | "lookup" | "fetch" | "tally" | "boundary": the
                    \*   step of this request that failed

VARIABLES
    \* ---- GET /sign
    signRev,        \* "index" | "part_000": which revision's /sign runs
    likedFid,       \* liked.fid, the fid of the session's address
    feed,           \* the liker's like messages held by the hub, in hub order
    chainRangeClose,\* getLikerLikedRangeClose(liked.fid, likerFid) on chain
    signPc,         \* "idle" | "lookup" | "rangeClose" | "waitForReady" | "fetch"
                    \*   | "sign" | "done" | "unhandled"
    rangeClose,     \* the boundary this request read
    startTime, endTime, numTokens,
    nextPageToken,  \* messages of the feed already paged over; 0 is `undefined`
    mintArguments,  \* result.mintArguments
    signResponses,  \* responses sent for this request
    hubState,       \* "none" | "open" | "closed": this request's hub client
    signSession,    \* req.session.user of this request is set
    \* history (not read by the program)
    scanComplete,   \* the pagination loop of this request ran to its end
    fetched,        \* feed positions returned to this request
    counted,        \* feed positions this request added to numTokens
    consumed,       \* the chain minted this request's signed arguments
    mints,          \* mints so far
    mintedIn,       \* feed position -> the mints whose count included it
    signCalls       \* the outside calls this request has issued, among "lookup",
                    \*   "rangeClose", "hub", "getReactionsByFid", "signMessage"

signVars == <<signRev, likedFid, feed, chainRangeClose, signPc, rangeClose,
              startTime, endTime, numTokens, nextPageToken, mintArguments,
              signResponses, hubState, scanComplete, fetched, counted,
              consumed, mints, mintedIn, signSession, signCalls>>

VARIABLES
    \* ---- POST /mint
    mintPc,         \* "idle" | "lookup" | "join" | "done"
    calls,          \* signer i -> "none" | "pending" | "fulfilled" | "rejected":
                    \*   the promise of the i-th mapped async callback
    results,        \* signer i -> the value slot i of Promise.all
    joined,         \* "none" | "pending" | "fulfilled" | "rejected": Promise.all
    mintResponses,  \* responses sent for this request
    mintSession,    \* req.session.user of this request is set
    mintBody,       \* likerFid, likedFid and likedAddress of this request
    \* history (not read by the program)
    echoed,         \* signer i -> what signer i's service answered
    failedCalls,    \* signers whose call failed
    arrival,        \* signers in the order their calls settled
    respondedAt,    \* how many calls had settled when the response was sent
    mintCalls,      \* the outside calls this request has issued, among "lookup"
                    \*   and "signer"
    outbound,       \* the calls to signers this request has issued, in order
    priorBody       \* likerFid, likedFid and likedAddress of the request before

mintVars == <<mintPc, calls, results, joined, mintResponses, echoed,
              failedCalls, arrival, respondedAt, mintSession, mintCalls,
              mintBody, outbound, priorBody>>

\* The tail of /scan: what the handler holds besides the scan's own locals.
scanTail == <<FIDs, fidLastMintTime, scanResponses, rejection, boundaryReads,
              userFIDRepeated, failedAt>>

scanVars == <<scanRev, scanPc, maxResults, result, depth, shifted, cutoff,
              notifIdx, pageReactors, cursorArg, fetches, likeOcc, otherOcc,
              nextCursor, lastSeen, outstanding, scanTail, parked>>

VARIABLES
    \* ---- /session/code, /session/start, /session/end, on one session
    sessionCode,    \* req.session.code, Null when absent
    sessionUser,    \* req.session.user.address, "" when there is no user
    sessionResponse,\* the response to the latest of these calls
    \* history (not read by the program)
    lastCall,       \* the latest call: its route and what it submitted
    issuedCode      \* the code most recently issued to the session

handshakeVars == <<sessionCode, sessionUser, sessionResponse, lastCall,
                   issuedCode>>

vars == <<scanVars, signVars, mintVars, handshakeVars>>

(***************************************************************************)
(* The reaction feed (Neynar fetchUserLikesAndRecasts)                     *)
(***************************************************************************)
\* reactors[j].timestamp is a date string; the model keeps its value in ms.
TimestampsMs == {s * 1000 + 500 : s \in Times}

Reactor == [fid : Fids, username : Names, timestamp : TimestampsMs]

\* Math.floor(new Date(timestamp).getTime() / 1000)
ToSeconds(ms) == ms \div 1000

\* The reactors of a feed whose reactions all fall in the first second and
\* whose users share one name.
PlainReactor == {r \in Reactor : r.username = "a" /\ ToSeconds(r.timestamp) = 1}

\* The reactors of a feed all of whose likes come from one user.
SoleReactor == {r \in PlainReactor : r.fid = 1}

(***************************************************************************)
(* getReactionsToUser                                                      *)
(***************************************************************************)
NewResult ==
    [ count           |-> 0,
      fidLikes        |-> [f \in Fids |-> Null],
      fidNames        |-> [f \in Fids |-> ""],
      fidLastLikeTime |-> [f \in Fids |-> Null] ]

\* A tally that counts a reactor once, however often it is seen.
TallyReactorDedup(rev, res, r) ==
    LET first == res.fidLikes[r.fid] = Null
    IN  [ count    |-> IF first THEN res.count + 1 ELSE res.count,
          fidNames |-> IF first THEN [res.fidNames EXCEPT ![r.fid] = r.username]
                       ELSE res.fidNames,
          fidLikes |-> [res.fidLikes EXCEPT ![r.fid] = 1],
          fidLastLikeTime |->
              [res.fidLastLikeTime EXCEPT ![r.fid] = Max(@, ToSeconds(r.timestamp))] ]

\* A tally whose count goes up with every like, first sighting or not.
TallyReactorCountsLikes(rev, res, r) ==
    LET first == res.fidLikes[r.fid] = Null
        t     == ToSeconds(r.timestamp)
    IN  [ count    |-> res.count + 1,
          fidNames |-> IF first THEN [res.fidNames EXCEPT ![r.fid] = r.username]
                       ELSE res.fidNames,
          fidLikes |-> [res.fidLikes EXCEPT ![r.fid] = @ + 1],
          fidLastLikeTime |->
              IF rev = "index"
              THEN [res.fidLastLikeTime EXCEPT ![r.fid] = Max(@, t)]
              ELSE IF first THEN [res.fidLastLikeTime EXCEPT ![r.fid] = t]
                   ELSE res.fidLastLikeTime ]

\* The body of the inner loop for one reactor r, up to the cutoff test.
TallyReactor(rev, res, r) ==
    LET first == res.fidLikes[r.fid] = Null
        t     == ToSeconds(r.timestamp)
    IN  [ count    |-> IF first THEN res.count + 1 ELSE res.count,
          fidNames |-> IF first THEN [res.fidNames EXCEPT ![r.fid] = r.username]
                       ELSE res.fidNames,
          fidLikes |-> [res.fidLikes EXCEPT ![r.fid] = @ + 1],
          fidLastLikeTime |->
              IF rev = "index"
              THEN [res.fidLastLikeTime EXCEPT ![r.fid] = Max(@, t)]
              ELSE IF first THEN [res.fidLastLikeTime EXCEPT ![r.fid] = t]
                   ELSE res.fidLastLikeTime ]

\* `if (result.count >= maxResults) { cutoff = true; break; }`
CutoffTest(count, m) == count >= m

\* `if (!next.cursor || cutoff || depth == 4) return;`
\* In a shifted call `depth` is undefined, so `depth == 4` is false.
DepthLimit == 4

\* A return test that forgets the cutoff flag.
StopsAfterPageNoCutoff(hasCursor, cut, d, shift) ==
    \/ ~hasCursor
    \/ (~shift /\ d = DepthLimit)

StopsAfterPage(hasCursor, cut, d, shift) ==
    \/ ~hasCursor
    \/ cut
    \/ (~shift /\ d = DepthLimit)

\* The cursor argument of a call: null for the first page, the cursor a page
\* returned, or (part_000, arguments shifted) the number depth + 1 and later
\* undefined + 1.
NoCursor == [kind |-> "null", value |-> 0]
Cursor(k) == [kind |-> "cursor", value |-> k]
NumberAsCursor(n) == [kind |-> "number", value |-> n]
NaNAsCursor == [kind |-> "NaN", value |-> 0]

\* The cursor argument of the recursive call made after page k, which returned
\* next.cursor = Cursor(k).
CursorArgument(rev, k, d, shift) ==
    IF rev = "index" THEN Cursor(k)
    ELSE IF shift THEN NaNAsCursor
    ELSE NumberAsCursor(d + 1)

(***************************************************************************)
(* GET /scan                                                               *)
(***************************************************************************)
\* req.query.address ("" when the parameter is missing) and the addresses a
\* user's verifications can hold.
Addresses == {"0xab", "0xAB", "0xcd"}
AddressInputs == Addresses \cup {""}

\* String.prototype.toLowerCase
ToLowerCase(a) == IF a = "0xAB" THEN "0xab" ELSE a

\* `user` of the lookup's result: undefined, or a user with verifications.
Users == {[found |-> FALSE, verifications |-> {}]}
         \cup {[found |-> TRUE, verifications |-> V] : V \in SUBSET Addresses}

\* user.verifications.filter(v => v.toLowerCase() == (address || '').toLowerCase()).length !== 0
IsVerified(user, address) ==
    \E v \in user.verifications : ToLowerCase(v) = ToLowerCase(address)

\* A handler that scans for any user the lookup returns.
AdmissionUnchecked(user, address) ==
    IF ~user.found THEN "nouser" ELSE "scan"

\* The two throws before the scan: "nouser" | "unverified", or "scan".
Admission(user, address) ==
    IF ~user.found THEN "nouser"
    ELSE IF ~IsVerified(user, address) THEN "unverified"
    ELSE "scan"

NoRejection == [why |-> "none", address |-> "", verifications |-> {}]

\* Object.keys(result.fidLikes): the keys are integer-like, so they come in
\* ascending numeric order whatever the order of insertion.
ObjectKeys(fidLikes) ==
    LET S == {f \in Fids : fidLikes[f] # Null}
    IN  [i \in 1..Cardinality(S) |->
            CHOOSE f \in S : Cardinality({g \in S : g < f}) = i - 1]

\* A comparator that puts the oldest first.
ComparatorOldestFirst(times, fidA, fidB) ==
    IF times[fidA] < times[fidB] THEN -1 ELSE 1

\* (fidA, fidB) => fidLastLikeTime[fidA] > fidLastLikeTime[fidB] ? -1 : 1
Comparator(times, fidA, fidB) ==
    IF times[fidA] > times[fidB] THEN -1 ELSE 1

\* Array.prototype.sort on a short array: each element in turn is inserted
\* into the sorted prefix, before the first element it compares below.
InsertSorted(sorted, pivot, times) ==
    LET below == {k \in 1..Len(sorted) : Comparator(times, pivot, sorted[k]) < 0}
        pos   == IF below = {} THEN Len(sorted) + 1
                 ELSE CHOOSE k \in below : \A j \in below : k <= j
    IN  SubSeq(sorted, 1, pos - 1) \o <<pivot>> \o SubSeq(sorted, pos, Len(sorted))

RECURSIVE SortFrom(_, _, _, _)
SortFrom(keys, i, sorted, times) ==
    IF i > Len(keys) THEN sorted
    ELSE SortFrom(keys, i + 1, InsertSorted(sorted, keys[i], times), times)

Sort(keys, times) == SortFrom(keys, 1, <<>>, times)

\* user.fid, the target of the scan.
UserFid == "user.fid"

\* Array.from({ length: result.count }, () => user.fid)
UserFIDRepeated(count) == [i \in 1..count |-> UserFid]

\* The target argument of the batched read: the repeated array, or in
\* part_000 the target itself.
TargetArgument(rev, count) ==
    IF rev = "index" THEN UserFIDRepeated(count) ELSE <<UserFid>>

\* The boundary the chain holds for a liker of the target; the batched read
\* answers with one value per requested liker, in the order requested.
BoundaryOf(liker) == 10 * liker
BatchedRead(fids) == [i \in 1..Len(fids) |-> BoundaryOf(fids[i])]

\* lastMintTimes.forEach((t, i) => result.fidLastMintTime[result.FIDs[i]] = t)
AssignMintTimes(fids, ts) ==
    [f \in Fids |-> IF \E i \in 1..Len(fids) : fids[i] = f
                    THEN ts[CHOOSE i \in 1..Len(fids) : fids[i] = f /\ \A j \in 1..Len(fids) : fids[j] = f => j <= i]
                    ELSE Null]

\* The result object as sent.
ScanPayload(res, fids, mintTimes) ==
    [ count           |-> res.count,
      fidLikes        |-> res.fidLikes,
      fidNames        |-> res.fidNames,
      fidLastLikeTime |-> res.fidLastLikeTime,
      FIDs            |-> fids,
      fidLastMintTime |-> mintTimes ]

\* GET /scan arrives: `address` is read and the identity lookup issued.
ScanRequest ==
    /\ scanPc = "idle"
    /\ scanPc' = "lookup"
    /\ UNCHANGED <<scanRev, maxResults, result, depth, shifted, cutoff,
                   notifIdx, pageReactors, cursorArg, fetches, likeOcc,
                   otherOcc, nextCursor, lastSeen, outstanding, scanTail, parked>>
    /\ UNCHANGED <<signVars, mintVars, handshakeVars>>

\* `await client.lookupUserByVerification(address)` settles.  A failed lookup
\* and the two throws that follow it go to the handler's catch; otherwise the
\* result object is created and getReactionsToUser(user.fid, maxResults,
\* result, null, 1) issues the fetch of the first page.
ScanLookup ==
    /\ scanPc = "lookup"
    /\ \E ok \in BOOLEAN :
          IF ~ok
          THEN /\ scanPc' = "responded"
               /\ scanResponses' = Append(scanResponses, ErrorResponse("lookup"))
               /\ failedAt' = "lookup"
               /\ UNCHANGED <<result, depth, shifted, cutoff, notifIdx,
                              pageReactors, cursorArg, fetches, outstanding,
                              rejection>>
          ELSE \E address \in AddressInputs, user \in Users :
                  /\ UNCHANGED failedAt
                  /\ rejection' =
                        IF ~user.found
                        THEN [why |-> "nouser", address |-> address,
                              verifications |-> {}]
                        ELSE IF ~IsVerified(user, address)
                        THEN [why |-> "unverified", address |-> address,
                              verifications |-> user.verifications]
                        ELSE NoRejection
                  /\ IF Admission(user, address) = "scan"
                     THEN /\ scanPc' = "fetch"
                          /\ result' = NewResult
                          /\ depth' = 1
                          /\ shifted' = FALSE
                          /\ cutoff' = FALSE
                          /\ notifIdx' = 0
                          /\ pageReactors' = 0
                          /\ cursorArg' = NoCursor
                          /\ fetches' = 1
                          /\ outstanding' = outstanding + 1
                          /\ UNCHANGED scanResponses
                     ELSE /\ scanPc' = "responded"
                          /\ scanResponses' =
                                Append(scanResponses,
                                       ErrorResponse(Admission(user, address)))
                          /\ UNCHANGED <<result, depth, shifted, cutoff, notifIdx,
                                         pageReactors, cursorArg, fetches,
                                         outstanding>>
    /\ UNCHANGED <<scanRev, maxResults, likeOcc, otherOcc, nextCursor, lastSeen,
                   FIDs, fidLastMintTime, boundaryReads, userFIDRepeated,
                   parked>>
    /\ UNCHANGED <<signVars, mintVars, handshakeVars>>

\* A fetch whose failure is swallowed: the call returns what was tallied.
FetchSwallowed(ok) == IF ok THEN "loop" ELSE "returned"

\* `const {...} = await client.fetchUserLikesAndRecasts(...)`: a failed fetch
\* throws out of getReactionsToUser, nothing there catches it.
FetchSettles(ok) == IF ok THEN "loop" ELSE "threw"

\* `await client.fetchUserLikesAndRecasts(...)` settles.
FetchPage ==
    /\ scanPc = "fetch"
    /\ \E ok \in BOOLEAN :
          /\ scanPc' = FetchSettles(ok)
          /\ failedAt' = IF ok THEN failedAt ELSE "fetch"
    /\ cutoff' = FALSE
    /\ notifIdx' = 0
    /\ pageReactors' = 0
    /\ outstanding' = outstanding - 1
    /\ UNCHANGED <<scanRev, maxResults, result, depth, shifted, cursorArg,
                   fetches, likeOcc, otherOcc, nextCursor, lastSeen, FIDs,
                   fidLastMintTime, scanResponses, rejection, boundaryReads,
                   userFIDRepeated, parked>>
    /\ UNCHANGED <<signVars, mintVars, handshakeVars>>

\* The outer loop `for (i ...)` reaches the page's next notification.  The page
\* is revealed piece by piece, as the loops read it; what a notification of
\* another type lists is never read.
NextNotification ==
    /\ scanPc = "loop"
    /\ notifIdx < MaxNotifs
    /\ notifIdx' = notifIdx + 1
    /\ \E reactionType \in {"like", "recast"}, listsReactors \in BOOLEAN :
          IF reactionType = "like"
          THEN /\ scanPc' = "reactors"
               /\ UNCHANGED otherOcc
          ELSE /\ otherOcc' = (otherOcc \/ listsReactors)
               /\ UNCHANGED scanPc
    /\ UNCHANGED <<scanRev, maxResults, result, depth, shifted, cutoff,
                   pageReactors, cursorArg, fetches, likeOcc, nextCursor,
                   lastSeen, outstanding, scanTail, parked>>
    /\ UNCHANGED <<signVars, mintVars, handshakeVars>>

\* The inner loop `for (j ...)` reaches the next reactor r of a 'like'
\* notification, tallies it and tests the cutoff; `break` leaves this loop
\* only.  reactors is what the feed's reactors can be.
NextReactor(reactors) ==
    /\ scanPc = "reactors"
    /\ pageReactors < MaxPageReactors
    /\ pageReactors' = pageReactors + 1
    /\ \E r \in reactors :
          /\ likeOcc' = [likeOcc EXCEPT ![r.fid] = @ + 1]
          /\ IF shifted
             THEN \* `result` is the cursor string: result.fidLikes is undefined
                  \* and result.fidLikes[fid] throws a TypeError
                  /\ scanPc' = "threw"
                  /\ failedAt' = "tally"
                  /\ UNCHANGED <<result, cutoff, lastSeen>>
             ELSE LET res == TallyReactor(scanRev, result, r)
                  IN  /\ result' = res
                      /\ UNCHANGED failedAt
                      /\ lastSeen' = [lastSeen EXCEPT
                                         ![r.fid] = Max(@, ToSeconds(r.timestamp))]
                      /\ IF CutoffTest(res.count, maxResults)
                         THEN /\ cutoff' = TRUE
                              /\ scanPc' = "unread"
                         ELSE UNCHANGED <<cutoff, scanPc>>
    /\ UNCHANGED <<scanRev, maxResults, depth, shifted, notifIdx, cursorArg,
                   fetches, otherOcc, nextCursor, outstanding, FIDs,
                   fidLastMintTime, scanResponses, rejection, boundaryReads,
                   userFIDRepeated, parked>>
    /\ UNCHANGED <<signVars, mintVars, handshakeVars>>

\* After `break`: the notification lists a further reactor, which the loop
\* never reads.
UnreadReactor ==
    /\ scanPc = "unread"
    /\ pageReactors < MaxPageReactors
    /\ pageReactors' = pageReactors + 1
    /\ \E f \in Fids : likeOcc' = [likeOcc EXCEPT ![f] = @ + 1]
    /\ UNCHANGED <<scanRev, scanPc, maxResults, result, depth, shifted, cutoff,
                   notifIdx, cursorArg, fetches, otherOcc, nextCursor, lastSeen,
                   outstanding, scanTail, parked>>
    /\ UNCHANGED <<signVars, mintVars, handshakeVars>>

\* The notification's reactors end; the outer loop goes on.
EndOfReactors ==
    /\ scanPc \in {"reactors", "unread"}
    /\ scanPc' = "loop"
    /\ UNCHANGED <<scanRev, maxResults, result, depth, shifted, cutoff, notifIdx,
                   pageReactors, cursorArg, fetches, likeOcc, otherOcc,
                   nextCursor, lastSeen, outstanding, scanTail, parked>>
    /\ UNCHANGED <<signVars, mintVars, handshakeVars>>

\* The outer loop ends; the call returns or recurses for the next page, which
\* issues that page's fetch.  The feed holds at most `pages` pages.
EndOfPage(pages) ==
    /\ scanPc = "loop"
    /\ \E hasCursor \in BOOLEAN :
          /\ nextCursor' = hasCursor
          /\ IF StopsAfterPage(hasCursor, cutoff, depth, shifted)
             THEN /\ scanPc' = "returned"
                  /\ UNCHANGED <<depth, shifted, fetches, cursorArg, outstanding>>
             ELSE /\ fetches < pages
                  /\ scanPc' = "fetch"
                  /\ fetches' = fetches + 1
                  /\ outstanding' = outstanding + 1
                  /\ cursorArg' = CursorArgument(scanRev, fetches, depth, shifted)
                  /\ IF scanRev = "index"
                     THEN \* getReactionsToUser(likedFid, maxResults, result, next.cursor, depth + 1)
                          /\ depth' = depth + 1
                          /\ UNCHANGED shifted
                     ELSE \* getReactionsToUser(fid, result, next.cursor, depth + 1)
                          /\ shifted' = TRUE
                          /\ UNCHANGED depth
    /\ UNCHANGED <<scanRev, maxResults, result, cutoff, notifIdx, pageReactors,
                   likeOcc, otherOcc, lastSeen, scanTail, parked>>
    /\ UNCHANGED <<signVars, mintVars, handshakeVars>>

\* getReactionsToUser has returned and /scan resumes: the tallied ids are
\* sorted and the batched boundary read is issued.
ScanSort ==
    /\ scanPc = "returned"
    /\ scanPc' = "boundary"
    /\ FIDs' = Sort(ObjectKeys(result.fidLikes), result.fidLastLikeTime)
    /\ boundaryReads' = boundaryReads + 1
    /\ userFIDRepeated' = TargetArgument(scanRev, result.count)
    /\ UNCHANGED <<scanRev, maxResults, result, depth, shifted, cutoff, notifIdx,
                   pageReactors, cursorArg, fetches, likeOcc, otherOcc,
                   nextCursor, lastSeen, outstanding, fidLastMintTime,
                   scanResponses, rejection, failedAt, parked>>
    /\ UNCHANGED <<signVars, mintVars, handshakeVars>>

\* The batched boundary read settles: its values are stored by FIDs position
\* and the result is sent, or the handler's catch answers with the error.
ScanBoundary ==
    /\ scanPc = "boundary"
    /\ scanPc' = "responded"
    /\ \E ok \in BOOLEAN :
          IF ok
          THEN LET mintTimes == AssignMintTimes(FIDs, BatchedRead(FIDs))
               IN  /\ fidLastMintTime' = mintTimes
                   /\ scanResponses' =
                         Append(scanResponses,
                                SuccessResponse(ScanPayload(result, FIDs, mintTimes)))
                   /\ UNCHANGED failedAt
          ELSE /\ scanResponses' = Append(scanResponses, ErrorResponse("boundary"))
               /\ failedAt' = "boundary"
               /\ UNCHANGED fidLastMintTime
    /\ UNCHANGED <<scanRev, maxResults, result, depth, shifted, cutoff, notifIdx,
                   pageReactors, cursorArg, fetches, likeOcc, otherOcc,
                   nextCursor, lastSeen, outstanding, FIDs, rejection,
                   boundaryReads, userFIDRepeated, parked>>
    /\ UNCHANGED <<signVars, mintVars, handshakeVars>>

\* getReactionsToUser has thrown and /scan resumes in its catch.
ScanCatch ==
    /\ scanPc = "threw"
    /\ scanPc' = "responded"
    /\ scanResponses' = Append(scanResponses, ErrorResponse("scan"))
    /\ UNCHANGED <<scanRev, maxResults, result, depth, shifted, cutoff, notifIdx,
                   pageReactors, cursorArg, fetches, likeOcc, otherOcc,
                   nextCursor, lastSeen, outstanding, FIDs, fidLastMintTime,
                   rejection, boundaryReads, userFIDRepeated, failedAt,
                   parked>>
    /\ UNCHANGED <<signVars, mintVars, handshakeVars>>

\* A request that has not arrived yet.
NoActivation ==
    [ scanPc |-> "idle", result |-> NewResult, depth |-> 1,
      shifted |-> FALSE, cutoff |-> FALSE, notifIdx |-> 0,
      pageReactors |-> 0, cursorArg |-> NoCursor, FIDs |-> <<>>,
      fidLastMintTime |-> [f \in Fids |-> Null], scanResponses |-> <<>>,
      fetches |-> 0, likeOcc |-> [f \in Fids |-> 0], otherOcc |-> FALSE,
      nextCursor |-> FALSE, lastSeen |-> [f \in Fids |-> Null],
      outstanding |-> 0, rejection |-> NoRejection,
      boundaryReads |-> 0, userFIDRepeated |-> <<>>, failedAt |-> "none" ]

\* What one /scan request holds: the handler's and the scan's locals, its
\* result object, and its history.
Activation ==
    [ scanPc |-> scanPc, result |-> result, depth |-> depth,
      shifted |-> shifted, cutoff |-> cutoff, notifIdx |-> notifIdx,
      pageReactors |-> pageReactors, cursorArg |-> cursorArg, FIDs |-> FIDs,
      fidLastMintTime |-> fidLastMintTime, scanResponses |-> scanResponses,
      fetches |-> fetches, likeOcc |-> likeOcc, otherOcc |-> otherOcc,
      nextCursor |-> nextCursor, lastSeen |-> lastSeen,
      outstanding |-> outstanding, rejection |-> rejection,
      boundaryReads |-> boundaryReads, userFIDRepeated |-> userFIDRepeated,
      failedAt |-> failedAt ]

\* A request waits at one of these (or has not started, or has answered)
\* whenever another request's code runs.
AwaitPoints == {"idle", "lookup", "fetch", "boundary", "responded"}

\* A result object kept at module level: every request tallies into the same
\* one.
ResultShared(own, other) == other

\* `const result = {...}` inside the handler: the request that resumes finds
\* its own result object, not the other's.
ResultOnResume(own, other) == own

\* The running request is at an await, or has answered, and the event loop
\* resumes the other request.  A request that has answered leaves nothing
\* behind; a new request may arrive in its place.
ScanSwitch ==
    /\ scanPc \in AwaitPoints
    /\ parked' = IF scanPc = "responded" THEN NoActivation ELSE Activation
    /\ scanPc' = parked.scanPc
    /\ result' = ResultOnResume(parked.result, result)
    /\ depth' = parked.depth
    /\ shifted' = parked.shifted
    /\ cutoff' = parked.cutoff
    /\ notifIdx' = parked.notifIdx
    /\ pageReactors' = parked.pageReactors
    /\ cursorArg' = parked.cursorArg
    /\ FIDs' = parked.FIDs
    /\ fidLastMintTime' = parked.fidLastMintTime
    /\ scanResponses' = parked.scanResponses
    /\ fetches' = parked.fetches
    /\ likeOcc' = parked.likeOcc
    /\ otherOcc' = parked.otherOcc
    /\ nextCursor' = parked.nextCursor
    /\ lastSeen' = parked.lastSeen
    /\ outstanding' = parked.outstanding
    /\ rejection' = parked.rejection
    /\ boundaryReads' = parked.boundaryReads
    /\ userFIDRepeated' = parked.userFIDRepeated
    /\ failedAt' = parked.failedAt
    /\ UNCHANGED <<scanRev, maxResults>>
    /\ UNCHANGED <<signVars, mintVars, handshakeVars>>

(***************************************************************************)
(* GET /sign                                                               *)
(***************************************************************************)
FrcEpoch == 1609459200

LikerFid == "likerFid"          \* req.query.likerFid
LikedAddress == "likedAddress"  \* req.session.user.address

\* A like message of the liker: data.reactionBody.targetCastId.fid and
\* data.timestamp (seconds since the Farcaster epoch).
Message == [fid : Fids, timestamp : 1..MaxStamp]

\* The window filter with the boundary itself let through.
IsAttributableInclusive(t, rc) == t >= rc

\* `t > rangeClose`
IsAttributable(t, rc) == t > rc

\* A count that takes the time of the reaction counted last as startTime.
CountReactionLastStart(acc, t, pos) ==
    [ endTime   |-> Max(acc.endTime, t),
      startTime |-> t,
      numTokens |-> acc.numTokens + 1,
      counted   |-> acc.counted \cup {pos} ]

\* endTime = Math.max(endTime || 0, t); startTime = Math.min(startTime ||
\* Infinity, t); numTokens++  -- for the reaction at feed position pos
CountReaction(acc, t, pos) ==
    [ endTime   |-> Max(acc.endTime, t),
      startTime |-> IF acc.startTime = Null THEN t ELSE Min(acc.startTime, t),
      numTokens |-> acc.numTokens + 1,
      counted   |-> acc.counted \cup {pos} ]

\* The body of `for (let i ...)` over one page, from message i of msgs;
\* base is the feed position before msgs[1].  acc carries startTime, endTime,
\* numTokens and the positions counted.
RECURSIVE MessageLoop(_, _, _, _, _, _, _)
MessageLoop(rev, msgs, i, base, acc, rc, liked) ==
    IF i > Len(msgs) THEN acc
    ELSE LET t    == msgs[i].timestamp + FrcEpoch
             hit  == CountReaction(acc, t, base + i)
         IN  IF rev = "index"
             THEN \* if (fid === liked.fid && t > rangeClose) { ... }
                  MessageLoop(rev, msgs, i + 1, base,
                              IF msgs[i].fid = liked /\ IsAttributable(t, rc)
                              THEN hit ELSE acc,
                              rc, liked)
             ELSE \* if (t <= rangeClose) break;  if (fid === liked.fid) { ... }
                  IF ~IsAttributable(t, rc) THEN acc
                  ELSE MessageLoop(rev, msgs, i + 1, base,
                                   IF msgs[i].fid = liked THEN hit ELSE acc,
                                   rc, liked)

\* The page the hub returns for a page token, and the token it returns with it.
PageAt(token) == SubSeq(feed, token + 1, Min(token + PageSize, Len(feed)))
TokenAfter(token) == IF token + PageSize < Len(feed) THEN token + PageSize ELSE 0

\* [likedAddress, liked.fid, [likerFid], [numTokens], [startTime], [endTime]]
BuildArguments(liked, n, st, en) ==
    <<LikedAddress, liked, <<LikerFid>>, <<n>>, <<st>>, <<en>>>>

\* AbiCoder.encode(["address","uint256","uint256[]",...], args) rejects a null
\* where a uint256 is expected.
EncodeThrows(args) == args[5][1] = Null \/ args[6][1] = Null

\* A signature made after the signature list was pushed onto the arguments.
SignatureAfterPush(args) == [signer |-> "frcSigner", over |-> Append(args, <<>>)]

\* frcSigner.signMessage(getBytes(keccak256(encode(args))))
Signature(args) == [signer |-> "frcSigner", over |-> args]

\* A throw inside the waitForReady callback: index.js catches it and answers,
\* part_000 has no try there and the rejection goes unhandled.
ThrowInCallback(e) ==
    IF signRev = "index"
    THEN /\ signPc' = "done"
         /\ signResponses' = Append(signResponses, ErrorResponse(e))
    ELSE /\ signPc' = "unhandled"
         /\ UNCHANGED signResponses

\* `req.session.user || {}`: an absent user read as an empty object.
SessionUserOrEmpty(hasUser) == TRUE

\* `const { address: likedAddress } = req.session.user` completes only when
\* the session has a user; destructuring undefined throws a TypeError.
SessionUserRead(hasUser) == hasUser

\* The hub gains a like message of the liker.
AddReaction ==
    /\ Len(feed) < MaxFeed
    /\ \E m \in Message : feed' = Append(feed, m)
    /\ UNCHANGED <<signRev, likedFid, chainRangeClose, signPc, rangeClose,
                   startTime, endTime, numTokens, nextPageToken, mintArguments,
                   signResponses, hubState, scanComplete, fetched, counted,
                   consumed, mints, mintedIn>>
    /\ UNCHANGED <<signSession, signCalls>>
    /\ UNCHANGED <<scanVars, mintVars, handshakeVars>>

\* A request arrives; `req.session.user` is read and the identity lookup issued.
SignRequest ==
    /\ signPc \in {"idle", "done", "unhandled"}
    /\ rangeClose' = Null
    /\ startTime' = Null
    /\ endTime' = Null
    /\ numTokens' = 0
    /\ nextPageToken' = 0
    /\ mintArguments' = <<>>
    /\ hubState' = "none"
    /\ scanComplete' = FALSE
    /\ fetched' = {}
    /\ counted' = {}
    /\ consumed' = FALSE
    /\ \E hasUser \in BOOLEAN :
          /\ signSession' = hasUser
          /\ IF SessionUserRead(hasUser)
             THEN /\ signPc' = "lookup"
                  /\ signResponses' = <<>>
                  /\ signCalls' = {"lookup"}
             ELSE \* the outer catch answers
                  /\ signPc' = "done"
                  /\ signResponses' = <<ErrorResponse("TypeError")>>
                  /\ signCalls' = {}
    /\ UNCHANGED <<signRev, likedFid, feed, chainRangeClose, mints, mintedIn>>
    /\ UNCHANGED <<scanVars, mintVars, handshakeVars>>

\* `await client.lookupUserByVerification(likedAddress)` settles.
SignLookup ==
    /\ signPc = "lookup"
    /\ \E ok \in BOOLEAN :
          IF ok
          THEN /\ signPc' = "rangeClose"
               /\ signCalls' = signCalls \cup {"rangeClose"}
               /\ UNCHANGED signResponses
          ELSE /\ signPc' = "done"
               /\ signResponses' = Append(signResponses, ErrorResponse("lookup"))
               /\ UNCHANGED signCalls
    /\ UNCHANGED <<signRev, likedFid, feed, chainRangeClose, rangeClose,
                   startTime, endTime, numTokens, nextPageToken, mintArguments,
                   hubState, scanComplete, fetched, counted, consumed, mints,
                   mintedIn>>
    /\ UNCHANGED signSession
    /\ UNCHANGED <<scanVars, mintVars, handshakeVars>>

\* `await contract.getLikerLikedRangeClose(liked.fid, likerFid)` settles; the
\* hub client is created and waitForReady registered.
SignRangeClose ==
    /\ signPc = "rangeClose"
    /\ \E ok \in BOOLEAN :
          IF ok
          THEN /\ signPc' = "waitForReady"
               /\ rangeClose' = chainRangeClose
               /\ hubState' = "open"
               /\ signCalls' = signCalls \cup {"hub"}
               /\ UNCHANGED signResponses
          ELSE /\ signPc' = "done"
               /\ signResponses' = Append(signResponses, ErrorResponse("rangeClose"))
               /\ UNCHANGED <<rangeClose, hubState, signCalls>>
    /\ UNCHANGED <<signRev, likedFid, feed, chainRangeClose, startTime, endTime,
                   numTokens, nextPageToken, mintArguments, scanComplete,
                   fetched, counted, consumed, mints, mintedIn>>
    /\ UNCHANGED signSession
    /\ UNCHANGED <<scanVars, mintVars, handshakeVars>>

\* The waitForReady callback runs, with or without an error; without one the
\* loop starts and the first page is requested.
SignReady ==
    /\ signPc = "waitForReady"
    /\ \E e \in BOOLEAN :
          IF e
          THEN /\ signPc' = "done"
               /\ signResponses' = Append(signResponses,
                      ErrorResponse("Failed to connect to the gRPC server"))
               /\ UNCHANGED signCalls
          ELSE /\ signPc' = "fetch"
               /\ signCalls' = signCalls \cup {"getReactionsByFid"}
               /\ UNCHANGED signResponses
    /\ UNCHANGED <<signRev, likedFid, feed, chainRangeClose, rangeClose,
                   startTime, endTime, numTokens, nextPageToken, mintArguments,
                   hubState, scanComplete, fetched, counted, consumed, mints,
                   mintedIn>>
    /\ UNCHANGED signSession
    /\ UNCHANGED <<scanVars, mintVars, handshakeVars>>

\* `await hubClient.getReactionsByFid(...)` throws.
SignFetchThrows ==
    /\ signPc = "fetch"
    /\ ThrowInCallback("fetch")
    /\ UNCHANGED <<signRev, likedFid, feed, chainRangeClose, rangeClose,
                   startTime, endTime, numTokens, nextPageToken, mintArguments,
                   hubState, scanComplete, fetched, counted, consumed, mints,
                   mintedIn>>
    /\ UNCHANGED <<signSession, signCalls>>
    /\ UNCHANGED <<scanVars, mintVars, handshakeVars>>

\* `await hubClient.getReactionsByFid(...)` returns an error value.
SignFetchError ==
    /\ signPc = "fetch"
    /\ signPc' = "done"
    /\ signResponses' = Append(signResponses, ErrorResponse("Unable to fetch reactions"))
    /\ hubState' = "closed"
    /\ UNCHANGED <<signRev, likedFid, feed, chainRangeClose, rangeClose,
                   startTime, endTime, numTokens, nextPageToken, mintArguments,
                   scanComplete, fetched, counted, consumed, mints, mintedIn>>
    /\ UNCHANGED <<signSession, signCalls>>
    /\ UNCHANGED <<scanVars, mintVars, handshakeVars>>

\* `await hubClient.getReactionsByFid(...)` returns a page: the page is
\* counted; after the last page the client is closed, the arguments are
\* built and encoded, and the signature is requested.
SignFetchPage ==
    /\ signPc = "fetch"
    /\ LET msgs == PageAt(nextPageToken)
           acc  == MessageLoop(signRev, msgs, 1, nextPageToken,
                               [ startTime |-> startTime, endTime |-> endTime,
                                 numTokens |-> numTokens, counted |-> counted ],
                               rangeClose, likedFid)
           tok  == TokenAfter(nextPageToken)
           args == BuildArguments(likedFid, acc.numTokens, acc.startTime, acc.endTime)
       IN  /\ startTime' = acc.startTime
           /\ endTime' = acc.endTime
           /\ numTokens' = acc.numTokens
           /\ counted' = acc.counted
           /\ fetched' = fetched \cup (nextPageToken + 1 .. nextPageToken + Len(msgs))
           /\ nextPageToken' = tok
           /\ IF tok # 0
              THEN \* isNextPage: the next page is requested
                   /\ UNCHANGED <<signPc, signResponses, hubState, scanComplete,
                                  mintArguments, signCalls>>
              ELSE /\ hubState' = "closed"
                   /\ scanComplete' = TRUE
                   /\ IF signRev = "index" /\ acc.numTokens = 0
                      THEN \* throw new Error("No tokens to mint")
                           /\ ThrowInCallback("No tokens to mint")
                           /\ UNCHANGED <<mintArguments, signCalls>>
                      ELSE /\ mintArguments' = args
                           /\ IF EncodeThrows(args)
                              THEN /\ ThrowInCallback("invalid BigNumberish value")
                                   /\ UNCHANGED signCalls
                              ELSE /\ signPc' = "sign"
                                   /\ signCalls' = signCalls \cup {"signMessage"}
                                   /\ UNCHANGED signResponses
    /\ UNCHANGED <<signRev, likedFid, feed, chainRangeClose, rangeClose,
                   consumed, mints, mintedIn>>
    /\ UNCHANGED signSession
    /\ UNCHANGED <<scanVars, mintVars, handshakeVars>>

\* `await frcSigner.signMessage(...)` settles; the signature list is pushed and
\* the result sent.
SignSigned ==
    /\ signPc = "sign"
    /\ \E ok \in BOOLEAN :
          IF ok
          THEN /\ mintArguments' = Append(mintArguments, <<Signature(mintArguments)>>)
               /\ signPc' = "done"
               /\ signResponses' = Append(signResponses,
                      SuccessResponse(Append(mintArguments, <<Signature(mintArguments)>>)))
          ELSE /\ ThrowInCallback("signMessage")
               /\ UNCHANGED mintArguments
    /\ UNCHANGED <<signRev, likedFid, feed, chainRangeClose, rangeClose,
                   startTime, endTime, numTokens, nextPageToken, hubState,
                   scanComplete, fetched, counted, consumed, mints, mintedIn>>
    /\ UNCHANGED <<signSession, signCalls>>
    /\ UNCHANGED <<scanVars, mintVars, handshakeVars>>

\* The chain mints the arguments of the request's success response: the pair's
\* range close becomes the endTime of those arguments.
Mint ==
    /\ signPc = "done"
    /\ ~consumed
    /\ mints < MaxCycles
    /\ Len(signResponses) = 1
    /\ signResponses[1].error = ""
    /\ consumed' = TRUE
    /\ mints' = mints + 1
    /\ chainRangeClose' = signResponses[1].results[6][1]
    /\ mintedIn' = [i \in 1..MaxFeed |->
                       IF i \in counted THEN mintedIn[i] \cup {mints + 1}
                       ELSE mintedIn[i]]
    /\ UNCHANGED <<signRev, likedFid, feed, signPc, rangeClose, startTime,
                   endTime, numTokens, nextPageToken, mintArguments,
                   signResponses, hubState, scanComplete, fetched, counted>>
    /\ UNCHANGED <<signSession, signCalls>>
    /\ UNCHANGED <<scanVars, mintVars, handshakeVars>>

(***************************************************************************)
(* POST /mint                                                              *)
(***************************************************************************)
Signers == 1..NumSigners

\* response.data.result of one signer: undefined, or {arguments, signature}.
UndefinedResult == [defined |-> FALSE, arguments |-> <<>>, signature |-> <<>>]

SignerResult(i, n) ==
    LET args == BuildArguments(1, n, FrcEpoch + 1, FrcEpoch + n)
    IN  [defined |-> TRUE, arguments |-> args,
         signature |-> [signer |-> i, over |-> args]]

\* What one call to signer i can come to: the request fails (unreachable or
\* an error status), or answers with or without a result.
Outcomes(i) ==
    {[kind |-> "fail", result |-> UndefinedResult],
     [kind |-> "ok", result |-> UndefinedResult]}
    \cup {[kind |-> "ok", result |-> SignerResult(i, n)] : n \in 1..MaxEcho}

\* A callback that catches the failure of its call and returns `{}`.
CallSettlementSwallow(outcome) ==
    IF outcome.kind = "fail"
    THEN [state |-> "fulfilled",
          value |-> [defined |-> TRUE, arguments |-> <<>>, signature |-> <<>>]]
    ELSE [state |-> "fulfilled", value |-> outcome.result]

\* async (url, i) => { const response = await axios.post(...);
\*                     return response.data.result; }
CallSettlement(outcome) ==
    IF outcome.kind = "fail"
    THEN [state |-> "rejected", value |-> UndefinedResult]
    ELSE [state |-> "fulfilled", value |-> outcome.result]

\* Values kept in the order the calls settle.
StoreByArrival(res, i, v, arrived) == [res EXCEPT ![arrived + 1] = v]

\* Promise.all keeps the value of the i-th promise in slot i.
StoreResult(res, i, v, arrived) == [res EXCEPT ![i] = v]

\* Promise.all rejects with the first rejection and fulfils once every
\* promise has fulfilled.
JoinState(cs, was) ==
    IF was # "pending" THEN was
    ELSE IF \E i \in Signers : cs[i] = "rejected" THEN "rejected"
    ELSE IF \A i \in Signers : cs[i] = "fulfilled" THEN "fulfilled"
    ELSE "pending"

\* A payload built on the last signer's arguments.
MintPayloadLast(res) ==
    res[NumSigners].arguments \o <<[i \in Signers |-> res[i].signature]>>

\* results[0].arguments.concat([results.map(r => r.signature)])
MintPayload(res) ==
    res[1].arguments \o <<[i \in Signers |-> res[i].signature]>>

\* The arguments of a request that has read none of them yet.
NoBody == [likerFid |-> Null, likedFid |-> Null, likedAddress |-> ""]

\* Every signer is sent the first token.
SignerTokenFirst(i) == 1

\* signerTokens[i], by its position in SIGNER_TOKENS.
SignerToken(i) == i

\* signerURLs.map(async (url, i) => axios.post(`${url}/mint`, {likerFid,
\* likedFid, likedAddress}, {headers: {Authorization: `Bearer ${token}`}})):
\* the calls the map issues, in order, each callback running up to its await.
FanOut(body) ==
    [i \in 1..NumSigners |-> [url |-> i, token |-> SignerToken(i), body |-> body]]

\* A request arrives with a likerFid among likers in its body;
\* `req.session.user` is read and the identity lookup issued.
MintRequest(likers) ==
    /\ mintPc = "idle"
    /\ \E hasUser \in BOOLEAN, liker \in likers :
          /\ mintSession' = hasUser
          /\ IF SessionUserRead(hasUser)
             THEN /\ mintPc' = "lookup"
                  /\ mintCalls' = {"lookup"}
                  /\ mintBody' = [likerFid |-> liker, likedFid |-> Null,
                                  likedAddress |-> LikedAddress]
                  /\ UNCHANGED <<mintResponses, respondedAt>>
             ELSE /\ mintPc' = "done"
                  /\ mintResponses' = Append(mintResponses, ErrorResponse("TypeError"))
                  /\ respondedAt' = Len(arrival)
                  /\ mintBody' = [NoBody EXCEPT !.likerFid = liker]
                  /\ UNCHANGED mintCalls
    /\ UNCHANGED <<calls, results, joined, echoed, failedCalls, arrival,
                   outbound, priorBody>>
    /\ UNCHANGED <<scanVars, signVars, handshakeVars>>

\* The lookup settles; on success signerURLs.map starts every callback, each
\* of which posts to its signer, and the handler awaits Promise.all.
MintLookup ==
    /\ mintPc = "lookup"
    /\ \E ok \in BOOLEAN :
          IF ok
          THEN /\ mintPc' = "join"
               /\ calls' = [i \in Signers |-> "pending"]
               /\ joined' = "pending"
               /\ mintCalls' = mintCalls \cup {"signer"}
               /\ mintBody' = [mintBody EXCEPT !.likedFid = 1]
               /\ outbound' = FanOut(mintBody')
               /\ UNCHANGED <<mintResponses, respondedAt>>
          ELSE /\ mintPc' = "done"
               /\ mintResponses' = Append(mintResponses, ErrorResponse("lookup"))
               /\ respondedAt' = Len(arrival)
               /\ UNCHANGED <<calls, joined, mintCalls, mintBody, outbound>>
    /\ UNCHANGED <<results, echoed, failedCalls, arrival, mintSession, priorBody>>
    /\ UNCHANGED <<scanVars, signVars, handshakeVars>>

\* The call to signer i settles, before or after the handler has answered.
SignerSettles ==
    /\ \E i \in Signers :
          /\ calls[i] = "pending"
          /\ \E o \in Outcomes(i) :
                LET st == CallSettlement(o)
                    cs == [calls EXCEPT ![i] = st.state]
                IN  /\ calls' = cs
                    /\ results' = IF st.state = "fulfilled"
                                  THEN StoreResult(results, i, st.value, Len(arrival))
                                  ELSE results
                    /\ joined' = JoinState(cs, joined)
                    /\ echoed' = [echoed EXCEPT ![i] = o.result]
                    /\ failedCalls' = IF o.kind = "fail" THEN failedCalls \cup {i}
                                      ELSE failedCalls
                    /\ arrival' = Append(arrival, i)
    /\ UNCHANGED <<mintPc, mintResponses, respondedAt, mintSession, mintCalls,
                   mintBody, outbound, priorBody>>
    /\ UNCHANGED <<scanVars, signVars, handshakeVars>>

\* The handler resumes after `await Promise.all(...)`.
MintResume ==
    /\ mintPc = "join"
    /\ joined # "pending"
    /\ mintPc' = "done"
    /\ respondedAt' = Len(arrival)
    /\ mintResponses' =
          Append(mintResponses,
                 IF joined = "rejected" THEN ErrorResponse("signer")
                 ELSE IF \E i \in Signers : ~results[i].defined
                 THEN \* r.signature of undefined
                      ErrorResponse("TypeError")
                 ELSE SuccessResponse(MintPayload(results)))
    /\ UNCHANGED <<calls, results, joined, echoed, failedCalls, arrival,
                   mintSession, mintCalls, mintBody, outbound, priorBody>>
    /\ UNCHANGED <<scanVars, signVars, handshakeVars>>

\* The handler has answered and the next request arrives at a handler that
\* kept nothing: every variable of /mint is local to one invocation, and the
\* calls of the request before, settled or not, reach nothing of the next.
MintAgain ==
    /\ mintPc = "done"
    /\ mintPc' = "idle"
    /\ calls' = [i \in Signers |-> "none"]
    /\ results' = [i \in Signers |-> UndefinedResult]
    /\ joined' = "none"
    /\ mintResponses' = <<>>
    /\ echoed' = [i \in Signers |-> UndefinedResult]
    /\ failedCalls' = {}
    /\ arrival' = <<>>
    /\ respondedAt' = 0
    /\ mintSession' = FALSE
    /\ mintCalls' = {}
    /\ mintBody' = NoBody
    /\ outbound' = <<>>
    /\ priorBody' = mintBody
    /\ UNCHANGED <<scanVars, signVars, handshakeVars>>

(***************************************************************************)
(* POST /session/code, /session/start, /session/end                         *)
(***************************************************************************)
MaxCode == 2         \* distinct codes crypto.randomInt can draw

Codes == 1..MaxCode
NoUser == ""

\* The signature a /session/start submits: one that verifyMessage cannot
\* parse, or one made by the key of address `by` over the message holding
\* code `over`.
Malformed == [kind |-> "malformed", by |-> "", over |-> Null]
Signatures ==
    {Malformed} \cup [kind : {"signed"}, by : Addresses, over : Codes]

\* ethers.verifyMessage(`...Code: ${code}`, signature): the address whose key
\* made the signature if it was made over this message, and an address
\* nobody submits otherwise.
VerifyMessage(code, signature) ==
    IF signature.over = code THEN signature.by ELSE "0x??"

\* A start that leaves the code in the session.
CodeKeptAfterStart(code) == code

\* `delete req.session.code` after the user is set.
CodeAfterStart(code) == Null

\* The body of /session/start's try block: the error it throws, or "".
StartError(code, address, signature) ==
    IF code = Null THEN "Invalid code"
    ELSE IF signature.kind = "malformed" THEN "verifyMessage"
    ELSE IF address # VerifyMessage(code, signature) THEN "Invalid signature"
    ELSE ""

NoCall == [route |-> "none", address |-> "", signature |-> Malformed]

\* POST /session/code
SessionCode ==
    /\ \E code \in Codes :
          /\ sessionCode' = code
          /\ issuedCode' = code
          /\ sessionResponse' = SuccessResponse(code)
    /\ lastCall' = [NoCall EXCEPT !.route = "code"]
    /\ UNCHANGED sessionUser
    /\ UNCHANGED <<scanVars, signVars, mintVars>>

\* POST /session/start
SessionStart ==
    /\ \E address \in Addresses, signature \in Signatures :
          LET e == StartError(sessionCode, address, signature)
          IN  /\ lastCall' = [route |-> "start", address |-> address,
                              signature |-> signature]
              /\ IF e = ""
                 THEN /\ sessionUser' = address
                      /\ sessionCode' = CodeAfterStart(sessionCode)
                      /\ sessionResponse' = SuccessResponse(address)
                 ELSE /\ sessionResponse' = ErrorResponse(e)
                      /\ UNCHANGED <<sessionUser, sessionCode>>
    /\ UNCHANGED issuedCode
    /\ UNCHANGED <<scanVars, signVars, mintVars>>

\* POST /session/end
SessionEnd ==
    /\ sessionCode' = Null
    /\ sessionUser' = NoUser
    /\ sessionResponse' = SuccessResponse(Null)
    /\ lastCall' = [NoCall EXCEPT !.route = "end"]
    /\ UNCHANGED issuedCode
    /\ UNCHANGED <<scanVars, signVars, mintVars>>

InitHandshake ==
    /\ sessionCode = Null
    /\ sessionUser = NoUser
    /\ sessionResponse = SuccessResponse(Null)
    /\ lastCall = NoCall
    /\ issuedCode = Null

InitScan ==
    /\ scanRev \in {"index", "part_000"}
    /\ scanPc = "idle"
    /\ maxResults \in 1..MaxM
    /\ result = NewResult
    /\ depth = 1
    /\ shifted = FALSE
    /\ cutoff = FALSE
    /\ notifIdx = 0
    /\ pageReactors = 0
    /\ cursorArg = NoCursor
    /\ FIDs = <<>>
    /\ fidLastMintTime = [f \in Fids |-> Null]
    /\ scanResponses = <<>>
    /\ fetches = 0
    /\ likeOcc = [f \in Fids |-> 0]
    /\ otherOcc = FALSE
    /\ nextCursor = FALSE
    /\ lastSeen = [f \in Fids |-> Null]
    /\ outstanding = 0
    /\ rejection = NoRejection
    /\ boundaryReads = 0
    /\ userFIDRepeated = <<>>
    /\ failedAt = "none"
    /\ parked = NoActivation

\* The service before any /sign request, the hub holding hubFeed.
InitSignOn(hubFeed) ==
    /\ signRev \in {"index", "part_000"}
    /\ likedFid \in Fids
    /\ feed = hubFeed
    /\ chainRangeClose = 0
    /\ signPc = "idle"
    /\ rangeClose = Null
    /\ startTime = Null
    /\ endTime = Null
    /\ numTokens = 0
    /\ nextPageToken = 0
    /\ mintArguments = <<>>
    /\ signResponses = <<>>
    /\ hubState = "none"
    /\ scanComplete = FALSE
    /\ fetched = {}
    /\ counted = {}
    /\ consumed = FALSE
    /\ mints = 0
    /\ mintedIn = [i \in 1..MaxFeed |-> {}]
    /\ signSession = FALSE
    /\ signCalls = {}

InitSign == InitSignOn(<<>>)

\* The parts a specification does not exercise stay as constructed.
ScanAtRest ==
    /\ InitScan
    /\ scanRev = "index"
    /\ maxResults = 1

SignAtRest ==
    /\ InitSign
    /\ signRev = "index"
    /\ likedFid = 1

InitMint ==
    /\ mintPc = "idle"
    /\ calls = [i \in Signers |-> "none"]
    /\ results = [i \in Signers |-> UndefinedResult]
    /\ joined = "none"
    /\ mintResponses = <<>>
    /\ echoed = [i \in Signers |-> UndefinedResult]
    /\ failedCalls = {}
    /\ arrival = <<>>
    /\ respondedAt = 0
    /\ mintSession = FALSE
    /\ mintCalls = {}
    /\ mintBody = NoBody
    /\ outbound = <<>>
    /\ priorBody = NoBody

NextMint ==
    \/ MintRequest({1})
    \/ MintLookup
    \/ SignerSettles
    \/ MintResume

MintInit == InitMint /\ ScanAtRest /\ SignAtRest /\ InitHandshake

SpecMint == MintInit /\ [][NextMint]_vars

\* /mint serving one request after another, for any liker.
NextFanOut ==
    \/ MintRequest(Fids)
    \/ MintLookup
    \/ SignerSettles
    \/ MintResume
    \/ MintAgain

FanOutInit == InitMint /\ ScanAtRest /\ SignAtRest /\ InitHandshake

SpecFanOut == FanOutInit /\ [][NextFanOut]_vars

\* The three session routes called one after another on one session.
NextHandshake ==
    \/ SessionCode
    \/ SessionStart
    \/ SessionEnd

HandshakeInit == InitHandshake /\ ScanAtRest /\ SignAtRest /\ InitMint

SpecHandshake == HandshakeInit /\ [][NextHandshake]_vars

NextSign ==
    \/ AddReaction
    \/ SignRequest
    \/ SignLookup
    \/ SignRangeClose
    \/ SignReady
    \/ SignFetchThrows
    \/ SignFetchError
    \/ SignFetchPage
    \/ SignSigned
    \/ Mint

SignInit == InitSign /\ ScanAtRest /\ InitMint /\ InitHandshake

SpecSign == SignInit /\ [][NextSign]_vars

\* The two handlers that read req.session.user, serving at the same time;
\* the hub holds one reaction of the liker to the liked fid.
NextSession ==
    \/ SignRequest
    \/ SignLookup
    \/ SignRangeClose
    \/ SignReady
    \/ SignFetchThrows
    \/ SignFetchError
    \/ SignFetchPage
    \/ SignSigned
    \/ MintRequest({1})
    \/ MintLookup
    \/ SignerSettles
    \/ MintResume

SessionInit ==
    /\ InitSignOn(<<[fid |-> 1, timestamp |-> 1]>>)
    /\ likedFid = 1
    /\ ScanAtRest
    /\ InitMint
    /\ InitHandshake

SpecSession == SessionInit /\ [][NextSession]_vars

NextScan ==
    \/ ScanRequest
    \/ ScanLookup
    \/ FetchPage
    \/ NextNotification
    \/ NextReactor(PlainReactor)
    \/ UnreadReactor
    \/ EndOfReactors
    \/ EndOfPage(MaxFetches)
    \/ ScanSort
    \/ ScanBoundary
    \/ ScanCatch

ScanInit == InitScan /\ SignAtRest /\ InitMint /\ InitHandshake

SpecScan == ScanInit /\ [][NextScan]_vars

\* The scan over a feed of few pages whose reactors differ in second and name.
NextTally ==
    \/ ScanRequest
    \/ ScanLookup
    \/ FetchPage
    \/ NextNotification
    \/ NextReactor(Reactor)
    \/ UnreadReactor
    \/ EndOfReactors
    \/ EndOfPage(MaxWidePages)
    \/ ScanSort
    \/ ScanBoundary
    \/ ScanCatch

TallyInit ==
    /\ InitScan
    /\ maxResults \in {1, MaxM}
    /\ SignAtRest
    /\ InitMint
    /\ InitHandshake

SpecTally == TallyInit /\ [][NextTally]_vars

\* Two /scan requests served at the same time, each over a short feed with
\* one reactor.
NextConcurrent ==
    \/ ScanRequest
    \/ ScanLookup
    \/ FetchPage
    \/ NextNotification
    \/ NextReactor(SoleReactor)
    \/ UnreadReactor
    \/ EndOfReactors
    \/ EndOfPage(MaxPagesEach)
    \/ ScanSort
    \/ ScanBoundary
    \/ ScanCatch
    \/ ScanSwitch

ConcurrentInit ==
    /\ InitScan
    /\ scanRev = "index"
    /\ maxResults \in {1, MaxM}
    /\ SignAtRest
    /\ InitMint
    /\ InitHandshake

SpecConcurrent == ConcurrentInit /\ [][NextConcurrent]_vars

(***************************************************************************)
(* Claims about the reaction scan                                          *)
(***************************************************************************)
Tallied == {f \in Fids : result.fidLikes[f] # Null}

\* C3 as stated: when getReactionsToUser completes, fidLikes[fid] is exactly the
\* number of times fid appears among the reactors of 'like' notifications of
\* the pages fetched.
C3_ExactCountOnReturn ==
    scanPc = "returned" => \A f \in Fids : result.fidLikes[f] = likeOcc[f]

\* C3 amended: fidLikes[fid] never exceeds the number of appearances of fid in
\* 'like' notifications of the fetched pages, and when the scan completes
\* without having reached maxResults it equals that number; notifications of
\* another type add nothing to fidLikes, fidNames or count.
C3_CountUpToCutoff ==
    /\ \A f \in Fids : result.fidLikes[f] <= likeOcc[f]
    /\ result.count = Cardinality(Tallied)
    /\ \A f \in Fids : result.fidNames[f] # "" <=> f \in Tallied
    /\ (scanPc = "returned" /\ result.count < maxResults)
           => \A f \in Fids : result.fidLikes[f] = likeOcc[f]

\* C3 witness: a completed scan without cutoff in which a reactor was seen more
\* than once, over more than one page, next to a notification of another type.
C3_Witness ==
    /\ scanPc = "returned"
    /\ result.count < maxResults
    /\ fetches >= 2
    /\ otherOcc
    /\ \E f \in Fids : result.fidLikes[f] >= 3 /\ result.fidLikes[f] = likeOcc[f]

\* C4: the distinct-reactor count never exceeds maxResults, in any state of
\* the scan.
C4_CutoffBound == result.count <= maxResults

\* C5: one scan performs at most DepthLimit (4) page fetches.
C5_DepthCutoff == fetches <= DepthLimit

\* C6: once the distinct-reactor count has reached maxResults, the scan
\* issues no further page fetch.
C6_CutoffStopsPagination ==
    [][result.count >= maxResults => fetches' = fetches]_vars

\* C6 witness: the count reached maxResults on a page that carried a next
\* cursor, below the depth limit, and the scan returned.
C6_Witness ==
    /\ scanPc = "returned"
    /\ result.count >= maxResults
    /\ nextCursor
    /\ ~shifted /\ depth < DepthLimit

\* C12: at every step of a scan, for every tallied reactor fid,
\* fidLastLikeTime[fid] is the latest second among that reactor's like events
\* processed so far (not the first one seen), fidLikes[fid] does not decrease,
\* and fidNames[fid] stays what it was set to at the first sighting.
C12_RecencyTracking ==
    [][ /\ \A f \in Fids :
              result'.fidLikes[f] # Null
                 => result'.fidLastLikeTime[f] = lastSeen'[f]
        /\ \A f \in Fids : result'.fidLikes[f] >= result.fidLikes[f]
        /\ \A f \in Fids :
              result.fidNames[f] # "" => result'.fidNames[f] = result.fidNames[f]
      ]_vars

\* The success responses sent for the running /scan request.
ScanSuccesses ==
    {k \in 1..Len(scanResponses) : scanResponses[k].error = ""}

\* C13: in every successful /scan response, FIDs holds exactly the tallied
\* reactor ids, each once, ordered by last like time descending: for all
\* positions i < j, fidLastLikeTime[FIDs[i]] >= fidLastLikeTime[FIDs[j]],
\* reactors with equal last like times included.
C13_ScanOrdering ==
    \A k \in ScanSuccesses :
        LET p == scanResponses[k].results
            n == Len(p.FIDs)
        IN  /\ {p.FIDs[i] : i \in 1..n} = {f \in Fids : p.fidLikes[f] # Null}
            /\ \A i, j \in 1..n : i # j => p.FIDs[i] # p.FIDs[j]
            /\ \A i, j \in 1..n :
                  i < j => p.fidLastLikeTime[p.FIDs[i]] >= p.fidLastLikeTime[p.FIDs[j]]

\* C13 witness: a success response over two pages whose FIDs is not in key
\* order: the reactor with the larger id liked last.
C13_Witness ==
    /\ ScanSuccesses # {}
    /\ fetches >= 2
    /\ LET p == scanResponses[1].results
       IN  /\ Len(p.FIDs) >= 2
           /\ p.FIDs[1] > p.FIDs[2]
           /\ p.fidLastLikeTime[p.FIDs[1]] > p.fidLastLikeTime[p.FIDs[2]]
           /\ p.fidLikes[p.FIDs[2]] >= 2

\* C14: a scan fails as a whole: when a page fetch of the reaction feed, the
\* first or a later one, or the batched boundary read has failed, the request
\* is answered with one error response that carries none of the tallies, and
\* never with a success response.
C14_ScanFailsAsAWhole ==
    failedAt \in {"fetch", "boundary"}
       => /\ ScanSuccesses = {}
          /\ scanPc = "responded"
                => /\ Len(scanResponses) = 1
                   /\ scanResponses[1].error # ""
                   /\ scanResponses[1].results = <<>>

\* C14 witness: the fetch of a later page failed after reactors had been
\* tallied, and the request was answered.
C14_Witness ==
    /\ failedAt = "fetch"
    /\ fetches >= 2
    /\ result.count >= 1
    /\ scanPc = "responded"
    /\ Len(scanResponses) = 1

\* C17: when the identity lookup returns no user, or a user none of whose
\* verified addresses equals the requested address case-insensitively, /scan
\* answers with an error, and it has issued no page fetch of the reaction
\* feed and no on-chain boundary read.
C17_RejectsBeforeWork ==
    rejection.why \in {"nouser", "unverified"}
       => /\ scanPc = "responded"
          /\ Len(scanResponses) = 1
          /\ scanResponses[1].error # ""
          /\ fetches = 0
          /\ boundaryReads = 0
          /\ \A v \in rejection.verifications :
                ToLowerCase(v) # ToLowerCase(rejection.address)

\* C17 witness: a request for an address was turned away although the user
\* found has verified addresses, in either case, none of them the requested.
C17_Witness ==
    /\ rejection.why = "unverified"
    /\ rejection.address = "0xcd"
    /\ rejection.verifications = {"0xab", "0xAB"}
    /\ scanPc = "responded"
    /\ scanResponses[1].error = "unverified"

\* C20: the pages of one scan are fetched one after the other: the fetch of
\* page k+1 is issued only when the response of page k has arrived and its
\* loops have ended, its cursor is the next.cursor that page k returned, and
\* a scan never has two page fetches outstanding.
C20_SequentialPages ==
    [][ /\ outstanding' <= 1
        /\ (fetches' = fetches + 1 /\ fetches >= 1)
              => /\ scanPc = "loop"
                 /\ outstanding = 0
                 /\ nextCursor'
                 /\ cursorArg' = Cursor(fetches)
      ]_vars

\* C21: result.count is the number of distinct keys of fidLikes in every
\* state of a scan, so the target array and FIDs handed to the batched
\* boundary read have the same length; FIDs lists every tallied reactor once,
\* and a successful answer holds the i-th returned boundary at
\* fidLastMintTime[FIDs[i]], one entry for each reactor of FIDs and no other.
C21_BoundaryAligned ==
    /\ result.count = Cardinality(Tallied)
    /\ boundaryReads > 0
          => /\ scanRev = "index" => Len(userFIDRepeated) = Len(FIDs)
             /\ \A i, j \in 1..Len(FIDs) : FIDs[i] = FIDs[j] => i = j
             /\ {FIDs[i] : i \in 1..Len(FIDs)} = Tallied
    /\ \A k \in ScanSuccesses :
          LET p == scanResponses[k].results
          IN  /\ \A i \in 1..Len(p.FIDs) :
                    p.fidLastMintTime[p.FIDs[i]] = BatchedRead(p.FIDs)[i]
              /\ \A f \in Fids :
                    p.fidLastMintTime[f] # Null
                       <=> \E i \in 1..Len(p.FIDs) : p.FIDs[i] = f

\* C21 witness: a scan that saw one reactor twice and another once has
\* answered with a boundary for each of the two.
C21_Witness ==
    /\ scanRev = "index"
    /\ ScanSuccesses # {}
    /\ Len(FIDs) = MaxFid
    /\ Len(userFIDRepeated) = MaxFid
    /\ \E f \in Fids : result.fidLikes[f] >= 2
    /\ \A f \in Fids : fidLastMintTime[f] = BoundaryOf(f)

\* What a request would hold had it run alone on the pages it was given: its
\* tallies follow from its own reads.
SoloConsistent(a) ==
    /\ \A f \in Fids : a.result.fidLikes[f] <= a.likeOcc[f]
    /\ (a.result.count < maxResults /\ a.failedAt # "tally")
          => \A f \in Fids : a.result.fidLikes[f] = a.likeOcc[f]
    /\ a.result.count = Cardinality({f \in Fids : a.result.fidLikes[f] # Null})
    /\ \A f \in Fids : a.result.fidLastLikeTime[f] = a.lastSeen[f]
    /\ \A f \in Fids : a.result.fidNames[f] # "" <=> a.result.fidLikes[f] # Null
    /\ \A k \in 1..Len(a.scanResponses) :
          a.scanResponses[k].error = ""
             => LET fids == Sort(ObjectKeys(a.result.fidLikes),
                                 a.result.fidLastLikeTime)
                IN  a.scanResponses[k].results =
                       ScanPayload(a.result, fids,
                                   AssignMintTimes(fids, BatchedRead(fids)))

\* C16: however two concurrent /scan requests interleave at their awaits, each
\* one's counts, names, last like times, FIDs and answer are those it would
\* produce alone on the pages it read; this holds of the running request and
\* of the one waiting at an await.
C16_IndependentScans ==
    /\ SoloConsistent(Activation)
    /\ SoloConsistent(parked)

\* C16 witness: one request has answered with its tallies while the other,
\* started before that answer, waits for its boundary read with different
\* tallies of its own.
C16_Witness ==
    /\ scanPc = "responded"
    /\ ScanSuccesses # {}
    /\ result.count = 1
    /\ parked.scanPc = "boundary"
    /\ parked.result.count = 1
    /\ parked.result.fidLikes[1] > result.fidLikes[1]


(***************************************************************************)
(* Claims about /sign                                                      *)
(***************************************************************************)
\* The fetched messages that target the liked fid after the boundary read.
InWindow == {i \in fetched : /\ feed[i].fid = likedFid
                             /\ feed[i].timestamp + FrcEpoch > rangeClose}

\* C1: when the pagination loop of /sign completes, numTokens is exactly the
\* number of fetched messages whose target is the liked fid and whose time is
\* strictly after rangeClose, whatever the order of the messages.
C1_WindowExclusivity ==
    scanComplete => /\ numTokens = Cardinality(InWindow)
                    /\ counted = InWindow

\* C2: over sign-then-mint cycles, no reaction is included in the count of
\* more than one mint.
C2_NoDoubleMint ==
    \A i \in 1..MaxFeed : Cardinality(mintedIn[i]) <= 1

\* C2 witness: two mints happened, each counted a reaction, and the second
\* mint's reaction was added to the feed after the first mint's.
C2_Witness ==
    /\ mints = 2
    /\ \E i, j \in 1..MaxFeed :
          /\ i < j
          /\ mintedIn[i] = {1}
          /\ mintedIn[j] = {2}
          /\ feed[i].timestamp + FrcEpoch = rangeClose

\* C10: when the scan finds no attributable reaction, the request ends with
\* one error response; nothing is signed and no success response is sent.
C10_NothingToMint ==
    (scanComplete /\ numTokens = 0)
       => /\ signPc = "done"
          /\ Len(signResponses) = 1
          /\ signResponses[1].error # ""
          /\ Len(mintArguments) < 7

\* The times of the reactions this request counted.
CountedTimes == {feed[i].timestamp + FrcEpoch : i \in counted}

SignSuccess == Len(signResponses) = 1 /\ signResponses[1].error = ""

\* C15: in every successful /sign response, numTokens is the number of counted
\* reactions, startTime is the least and endTime the greatest of their times,
\* both are times of counted reactions, and rangeClose < startTime <= endTime.
C15_WindowBounds ==
    SignSuccess =>
        LET args == signResponses[1].results
            n    == args[4][1]
            st   == args[5][1]
            en   == args[6][1]
        IN  /\ n = Cardinality(counted)
            /\ st \in CountedTimes
            /\ en \in CountedTimes
            /\ \A t \in CountedTimes : st <= t /\ t <= en
            /\ rangeClose < st
            /\ st <= en

\* C15 witness: a success response that counted two reactions of different
\* times, the later one first in the feed, and left a fetched reaction out.
C15_Witness ==
    /\ SignSuccess
    /\ fetched \ counted # {}
    /\ signResponses[1].results[5][1] < signResponses[1].results[6][1]
    /\ \E i, j \in counted : i < j /\ feed[i].timestamp > feed[j].timestamp

\* C18: every successful /sign response carries exactly the seven elements
\* likedAddress, likedFid, [likerFid], [numTokens], [startTime], [endTime],
\* [signature] in that order; the inner lists have one element each, for the
\* one liker of the request; and the signature was made over the first six
\* elements, before the signature list was appended.
C18_WireShape ==
    SignSuccess =>
        LET r == signResponses[1].results
        IN  /\ Len(r) = 7
            /\ r[1] = LikedAddress
            /\ r[2] = likedFid
            /\ r[3] = <<LikerFid>>
            /\ r[4] = <<numTokens>>
            /\ r[5] = <<startTime>>
            /\ r[6] = <<endTime>>
            /\ Len(r[7]) = 1
            /\ r[7][1].signer = "frcSigner"
            /\ r[7][1].over = SubSeq(r, 1, 6)
            /\ r = mintArguments

\* C18 witness: a success response for more than one reaction over a window
\* that is wider than one second.
C18_Witness ==
    /\ SignSuccess
    /\ signPc = "done"
    /\ numTokens >= 2
    /\ startTime < endTime
    /\ Len(signResponses[1].results[7]) = 1

\* C11: every /sign request ends with exactly one response: an error response
\* after a failure at any stage, a success response after the signature was
\* made; it never ends with no response and never with two.
C11_ExactlyOneResponse ==
    /\ Len(signResponses) <= 1
    /\ signPc \in {"done", "unhandled"}
          => /\ Len(signResponses) = 1
             /\ signResponses[1].error = "" <=> Len(mintArguments) = 7


\* C24: whenever a /sign request that created a hub client has sent its
\* response, whichever the exit path, hubClient.close() has been called on
\* that client.
C24_HubClosedOnExit ==
    (signResponses # <<>> /\ hubState # "none") => hubState = "closed"

(***************************************************************************)
(* Claims about the session                                                *)
(***************************************************************************)
\* C19: a /sign or /mint request made on a session that has no user ends with
\* one error response, and no identity lookup, no on-chain read, no hub or
\* signer call is issued and no signature is made for it.
C19_NoSessionNoAttestation ==
    /\ (signPc # "idle" /\ ~signSession)
          => /\ signPc = "done"
             /\ Len(signResponses) = 1
             /\ signResponses[1].error # ""
             /\ signCalls = {}
             /\ Len(mintArguments) < 7
    /\ (mintPc # "idle" /\ ~mintSession)
          => /\ mintPc = "done"
             /\ Len(mintResponses) = 1
             /\ mintResponses[1].error # ""
             /\ mintCalls = {}
             /\ \A i \in Signers : calls[i] = "none"

\* C19 witness: a /sign and a /mint request were both made without a session
\* user and both were answered.
C19_Witness ==
    /\ signPc = "done" /\ ~signSession /\ Len(signResponses) = 1
    /\ mintPc = "done" /\ ~mintSession /\ Len(mintResponses) = 1


(***************************************************************************)
(* Claims about /mint                                                      *)
(***************************************************************************)
SuccessSent == \E k \in 1..Len(mintResponses) : mintResponses[k].error = ""

\* C7: if any signer call fails, no response carrying a signature list is ever
\* sent and the request ends with exactly one error response, in whatever
\* order the calls settle.
C7_AllOrNothing ==
    /\ Len(mintResponses) <= 1
    /\ failedCalls # {} => ~SuccessSent
    /\ (failedCalls # {} /\ mintPc = "done")
          => (Len(mintResponses) = 1 /\ mintResponses[1].error # "")

\* C7 witness: a call fulfilled, then another failed, the error was answered,
\* and a third call settled only after the answer.
C7_Witness ==
    /\ mintPc = "done"
    /\ Len(arrival) = NumSigners
    /\ respondedAt = 2
    /\ arrival[1] \notin failedCalls
    /\ arrival[2] \in failedCalls
    /\ Len(mintResponses) = 1

\* C8 as stated: a success response is sent only when every signer echoed the
\* same arguments.
C8_SignersAgree ==
    SuccessSent => \A i, j \in Signers : echoed[i].arguments = echoed[j].arguments

\* C8 amended: a success response is sent only when every signer answered with
\* a result, and it carries the arguments echoed by the first configured
\* signer; the echoes of the other signers are not compared with them.
C8_FirstSignerArguments ==
    SuccessSent =>
        /\ \A i \in Signers : echoed[i].defined
        /\ SubSeq(mintResponses[1].results, 1, 6) = echoed[1].arguments

\* C8 witness: a success response although two signers echoed different
\* arguments.
C8_Witness ==
    /\ SuccessSent
    /\ \E i \in Signers : echoed[i].arguments # echoed[1].arguments

\* C9: in a success response the last element is the list of the N signatures,
\* the i-th being the one signer i returned, and the elements before it are
\* the argument fields unchanged, for any order of arrival.
C9_SignatureOrder ==
    SuccessSent =>
        LET payload == mintResponses[1].results
            sigs    == payload[Len(payload)]
        IN  /\ Len(payload) = 7
            /\ DOMAIN sigs = Signers
            /\ \A i \in Signers : sigs[i] = echoed[i].signature
            /\ \A k \in 1..6 : payload[k] = results[1].arguments[k]

\* C9 witness: a success response whose calls settled in the reverse of the
\* configured order.
C9_Witness ==
    /\ SuccessSent
    /\ arrival = [k \in Signers |-> NumSigners + 1 - k]

\* C22: a /mint request that has reached the fan-out has issued exactly one
\* call to each configured signer URL; the call to the i-th URL carries the
\* i-th token and the request's own likerFid, likedFid and likedAddress, the
\* same in every call; no call has settled before all were issued; and the
\* handler that awaits the next request holds nothing of the one before.
C22_OneCallPerSigner ==
    /\ "signer" \in mintCalls
          => /\ Len(outbound) = NumSigners
             /\ \A i \in Signers :
                   Cardinality({k \in 1..Len(outbound) : outbound[k].url = i}) = 1
             /\ \A k \in 1..Len(outbound) :
                   /\ outbound[k].token = outbound[k].url
                   /\ outbound[k].body = mintBody
             /\ mintBody.likerFid \in Fids
             /\ mintBody.likedFid # Null
             /\ mintBody.likedAddress = LikedAddress
    /\ "signer" \notin mintCalls
          => /\ outbound = <<>>
             /\ arrival = <<>>
             /\ \A i \in Signers : calls[i] = "none"
    /\ mintPc = "idle"
          => /\ mintBody = NoBody
             /\ mintCalls = {}
             /\ joined = "none"
             /\ \A i \in Signers : results[i] = UndefinedResult

\* C22 witness: the request after one that fanned out for another liker has
\* issued its own calls, and one of them has settled.
C22_Witness ==
    /\ "signer" \in mintCalls
    /\ arrival # <<>>
    /\ priorBody.likedFid # Null
    /\ priorBody.likerFid # mintBody.likerFid
    /\ \A k \in 1..Len(outbound) : outbound[k].body.likerFid = mintBody.likerFid

(***************************************************************************)
(* Claims about the session handshake                                      *)
(***************************************************************************)
StartSucceeded == lastCall.route = "start" /\ sessionResponse.error = ""

\* C23: over any sequence of /session/code, /session/start and /session/end
\* calls on one session: a user appears or changes only in a start that
\* succeeds; a start succeeds only with a signature made by the submitted
\* address over the code most recently issued, still held by the session, and
\* it sets that address as the user and deletes the code; a start that finds
\* no code, the repeat of a successful start included, fails with 'Invalid
\* code'; a start that fails leaves user and code as they were; an end removes
\* both.
C23_SingleUseHandshake ==
    [][ /\ (sessionUser' # sessionUser /\ sessionUser' # NoUser)
              => StartSucceeded'
        /\ StartSucceeded'
              => /\ sessionCode # Null
                 /\ sessionCode = issuedCode
                 /\ lastCall'.signature.kind = "signed"
                 /\ lastCall'.signature.by = lastCall'.address
                 /\ lastCall'.signature.over = issuedCode
                 /\ sessionUser' = lastCall'.address
                 /\ sessionCode' = Null
        /\ (lastCall'.route = "start" /\ (sessionCode = Null \/ StartSucceeded))
              => sessionResponse' = ErrorResponse("Invalid code")
        /\ (lastCall'.route = "start" /\ sessionResponse'.error # "")
              => /\ sessionUser' = sessionUser
                 /\ sessionCode' = sessionCode
        /\ lastCall'.route = "end"
              => /\ sessionUser' = NoUser
                 /\ sessionCode' = Null
      ]_vars

\* C23 witness: the start that set the user has been repeated, signature and
\* address as before, and has failed with 'Invalid code'; the user stays.
C23_Witness ==
    /\ lastCall.route = "start"
    /\ lastCall.signature.kind = "signed"
    /\ lastCall.signature.by = lastCall.address
    /\ lastCall.signature.over = issuedCode
    /\ sessionUser = lastCall.address
    /\ sessionCode = Null
    /\ sessionResponse = ErrorResponse("Invalid code")

=============================================================================
